---- MODULE Spec2Model ----
(***************************************************************************)
(* Model of the DustSphereApp component (src/dust_sphere_animation.jsx).   *)
(*                                                                         *)
(* Numbers are fixed point: lengths, speeds, amplitudes, sines and random  *)
(* draws are in thousandths, angles in milliradians, times in              *)
(* milliseconds (so an elapsed time in ms is the elapsed seconds in        *)
(* thousandths).  A position component is normal * radius, kept exact in   *)
(* millionths.  rotation.y is in 1e-6 rad, rotation.x in 1e-8 rad.         *)
(*                                                                         *)
(* Objects created by one run of the activation effect (renderer, scene,   *)
(* camera, controls, geometry, material, points) are identified by the    *)
(* index of that activation in acts; 0 stands for null.                    *)
(***************************************************************************)
EXTENDS Integers, Sequences, FiniteSets, TLC

\* ---------------------------------------------------------------- bounds
MaxActivations == 2
MaxFrames == 3

\* ------------------------------------------------------- program constants
DefaultParticleCount == 2000
DefaultBaseRadius == 5000
DefaultPulseAmplitude == 600
DefaultPulseSpeed == 1050
DefaultRotationSpeed == 650

\* the defaults the README documents
ReadmeParticleCount == 5000
ReadmeBaseRadius == 5000
ReadmePulseAmplitude == 500
ReadmePulseSpeed == 3000
ReadmeRotationSpeed == 650

\* a prop the parent does not pass (undefined)
Omitted == -1

\* ------------------------------------------------------------ input sets
\* the props a parent may pass on the first render, each one given or omitted
OptionSpace ==
  [particleCount : {Omitted, 0, 1, 2}, baseRadius : {Omitted, 1000},
   pulseAmplitude : {Omitted, 500}, pulseSpeed : {Omitted, 3000},
   rotationSpeed : {Omitted, 0}]

BaseParams ==
  [particleCount |-> 1, baseRadius |-> DefaultBaseRadius,
   pulseAmplitude |-> DefaultPulseAmplitude, pulseSpeed |-> DefaultPulseSpeed,
   rotationSpeed |-> DefaultRotationSpeed]

\* BaseParams with one prop changed
Variants ==
  { [BaseParams EXCEPT !.particleCount = 2],
    [BaseParams EXCEPT !.particleCount = 0],
    [BaseParams EXCEPT !.baseRadius = 1000],
    [BaseParams EXCEPT !.pulseAmplitude = 500],
    [BaseParams EXCEPT !.pulseSpeed = 3000],
    [BaseParams EXCEPT !.rotationSpeed = 0] }

\* the props the parent may render the component with next: it changes one
\* prop of BaseParams, or goes back to BaseParams
NextProps(current) == IF current = BaseParams THEN Variants ELSE {BaseParams}

\* values Math.random() can return, in thousandths (the range is [0, 1))
RandomVals == {0, 999}

\* milliseconds between two animation frames
FrameDeltas == {700}

\* mount.clientWidth/clientHeight and window.innerWidth/innerHeight
InitialViewport == [clientW |-> 800, clientH |-> 600, innerW |-> 1024, innerH |-> 768]

\* the sizes a resize of the window leads to (the mount element may then
\* report a zero client size)
ResizedViewports == { [clientW |-> 0, clientH |-> 0, innerW |-> 640, innerH |-> 480] }

\* the release steps of the cleanup that call into the library or the DOM
ReleaseSteps == {"controls", "detach", "geometry", "material", "renderer", "canvas"}

\* ------------------------------------------------------------- arithmetic
\* Math.sin on milliradians, result in thousandths (Bhaskara's rational
\* approximation after reduction to one period)
SinHalf(y) ==
  LET p == (y * (3142 - y)) \div 1000
  IN  (16000 * p) \div (49361 - 4 * p)

Sin(x) ==
  LET y == x % 6284
  IN  IF y <= 3142 THEN SinHalf(y) ELSE 0 - SinHalf(y - 3142)

Cos(x) == Sin(x + 1571)

\* Math.sqrt on millionths, result in thousandths
RECURSIVE SqrtBetween(_, _, _)
SqrtBetween(v, lo, hi) ==
  IF lo = hi THEN lo
  ELSE LET mid == (lo + hi + 1) \div 2
       IN  IF mid * mid <= v THEN SqrtBetween(v, mid, hi) ELSE SqrtBetween(v, lo, mid - 1)

Sqrt(v) == SqrtBetween(v, 0, 1000)

\* ------------------------------------------------------ particle buffers
\* index i of the source is 0-based; the arrays here are 1-based, so the
\* source's a[k] is a[k + 1]

\* normals[i3 .. i3+2] of particle i for a sphere of n particles
NormalOf(i, n) ==
  LET z == 1000 - ((2 * i + 1) * 1000) \div n      \* cos(phi), phi = acos(1 - 2(i+0.5)/n)
      sinPhi == Sqrt(1000000 - z * z)               \* sin(phi)
      theta == (10166 * (2 * i + 1)) \div 2         \* pi * (1 + sqrt 5) * (i + 0.5)
  IN  << (sinPhi * Cos(theta)) \div 1000, (sinPhi * Sin(theta)) \div 1000, z >>

BuildNormals(n) ==
  [k \in 1..(3 * n) |-> NormalOf((k - 1) \div 3, n)[((k - 1) % 3) + 1]]

\* jitter = (Math.random() - 0.5) * 0.02, for the draw d
JitterOf(d) == ((d - 500) * 20) \div 1000

\* positions allocated for one particle too many (the loop fills the first n)
BuildPositionsOneMore(normals, baseRadius, jit) ==
  [k \in 1..(Len(normals) + 3) |->
     IF k <= Len(normals)
       THEN normals[k] * (baseRadius + JitterOf(jit[((k - 1) \div 3) + 1]))
       ELSE 0]

\* positions[i3 + c] = normal * (baseRadius + jitter), jit[i] the draw of particle i
BuildPositions(normals, baseRadius, jit) ==
  [k \in 1..Len(normals) |->
     normals[k] * (baseRadius + JitterOf(jit[((k - 1) \div 3) + 1]))]

\* the (radius + noise) factor of particle i at the elapsed time
RadiusOf(i, elapsed, rndI, p) ==
  LET pulse == (Sin((elapsed * p.pulseSpeed) \div 1000) * p.pulseAmplitude) \div 1000
      r == (rndI * 800) \div 1000 + 200
      localPulse == (pulse * r) \div 1000
      noise == (Sin((elapsed * (700 + r * 2)) \div 1000 + i * 1000) * 5) \div 1000
      radius == p.baseRadius + localPulse
  IN  radius + noise

\* the position loop with the noise left out of the z component
UpdatePositionsUnevenNoise(act, elapsed) ==
  [k \in 1..(3 * act.p.particleCount) |->
     act.normals[k] *
       (RadiusOf((k - 1) \div 3, elapsed, act.randoms[((k - 1) \div 3) + 1], act.p)
          + (IF k % 3 = 0 THEN 3 ELSE 0))]

\* the position loop of animate, writing the array in place: every
\* pos[i3 + c] = nrm[i3 + c] * (radius + noise) for i < particleCount
UpdatePositions(act, elapsed) ==
  [k \in DOMAIN act.positions |->
     IF k <= 3 * act.p.particleCount
       THEN act.normals[k] *
              RadiusOf((k - 1) \div 3, elapsed, act.randoms[((k - 1) \div 3) + 1], act.p)
       ELSE act.positions[k]]

\* BufferAttribute.count = array.length / itemSize
AttrCount(array, itemSize) == Len(array) \div itemSize

\* ------------------------------------------------------------------ state
VARIABLES
  props,           \* the props of the last render
  phase,           \* "init" (not rendered yet), "mounted", "unmounted"
  pendingEffects,  \* passive effects committed but not run yet: "sync", "activation"
  effectCleanup,   \* activation whose cleanup function React holds, 0 if none
  pointsRef,       \* pointsRef.current
  rendererRef,     \* rendererRef.current
  animationRef,    \* animationRef.current
  runningRef,      \* runningRef.current
  running,         \* useState running
  readyInfo,       \* useState readyInfo
  acts,            \* the objects each run of the activation effect created
  timers,          \* pending setTimeout(.., 0) callbacks, oldest first
  frames,          \* pending requestAnimationFrame callbacks
  nextFrameId,     \* the id the next requestAnimationFrame returns
  now,             \* performance.now()
  viewport,        \* sizes of the mount element and the window
  mountChildren,   \* canvases appended to the mount element
  listeners,       \* handleResize closures registered on window
  report,          \* the alert quickCheck shows (dismissed before anything else runs)
  lastOp           \* the handler that ran last

vars ==
  << props, phase, pendingEffects, effectCleanup, pointsRef, rendererRef,
     animationRef, runningRef, running, readyInfo, acts, timers, frames,
     nextFrameId, now, viewport, mountChildren, listeners, report, lastOp >>

\* the component's world as one value, so that a handler is a function of it
World ==
  [props |-> props, phase |-> phase, pendingEffects |-> pendingEffects,
   effectCleanup |-> effectCleanup, pointsRef |-> pointsRef,
   rendererRef |-> rendererRef, animationRef |-> animationRef,
   runningRef |-> runningRef, running |-> running, readyInfo |-> readyInfo,
   acts |-> acts, timers |-> timers, frames |-> frames,
   nextFrameId |-> nextFrameId, now |-> now, viewport |-> viewport,
   mountChildren |-> mountChildren, listeners |-> listeners, report |-> report]

\* useState(null) of readyInfo; geometry and points 0 are no object
NullInfo == [particleCount |-> 0, geometry |-> 0, points |-> 0]

NoReport == [kind |-> "none", particleCount |-> 0, posCount |-> 0,
             okCount |-> FALSE, present |-> FALSE]

Becomes(next, op) ==
  \E w \in {next} :
  /\ props' = w.props
  /\ phase' = w.phase
  /\ pendingEffects' = w.pendingEffects
  /\ effectCleanup' = w.effectCleanup
  /\ pointsRef' = w.pointsRef
  /\ rendererRef' = w.rendererRef
  /\ animationRef' = w.animationRef
  /\ runningRef' = w.runningRef
  /\ running' = w.running
  /\ readyInfo' = w.readyInfo
  /\ acts' = w.acts
  /\ timers' = w.timers
  /\ frames' = w.frames
  /\ nextFrameId' = w.nextFrameId
  /\ now' = w.now
  /\ viewport' = w.viewport
  /\ mountChildren' = w.mountChildren
  /\ listeners' = w.listeners
  /\ report' = IF op = "quickCheck" THEN w.report ELSE NoReport
  /\ lastOp' = op

\* the destructuring of the props with its default values
DestructureProps(o) ==
  [particleCount |-> IF o.particleCount = Omitted THEN DefaultParticleCount
                                                  ELSE o.particleCount,
   baseRadius |-> IF o.baseRadius = Omitted THEN DefaultBaseRadius ELSE o.baseRadius,
   pulseAmplitude |-> IF o.pulseAmplitude = Omitted THEN DefaultPulseAmplitude
                                                    ELSE o.pulseAmplitude,
   pulseSpeed |-> IF o.pulseSpeed = Omitted THEN DefaultPulseSpeed ELSE o.pulseSpeed,
   rotationSpeed |-> IF o.rotationSpeed = Omitted THEN DefaultRotationSpeed
                                                  ELSE o.rotationSpeed]

\* the component before its first render, given the props o
InitWith(o) ==
  /\ props = o
  /\ phase = "init"
  /\ pendingEffects = {}
  /\ effectCleanup = 0
  /\ pointsRef = 0
  /\ rendererRef = 0
  /\ animationRef = 0
  /\ runningRef = TRUE
  /\ running = TRUE
  /\ readyInfo = NullInfo
  /\ acts = << >>
  /\ timers = << >>
  /\ frames = {}
  /\ nextFrameId = 1
  /\ now = 0
  /\ viewport = InitialViewport
  /\ mountChildren = {}
  /\ listeners = {}
  /\ report = NoReport
  /\ lastOp = "init"

Init == InitWith(BaseParams)

\* ------------------------------------------------------------- handlers
\* mount.clientWidth || window.innerWidth, mount.clientHeight || window.innerHeight
SurfaceSize(v) ==
  << IF v.clientW # 0 THEN v.clientW ELSE v.innerW,
     IF v.clientH # 0 THEN v.clientH ELSE v.innerH >>

\* useEffect(() => { runningRef.current = running }, [running])
syncEffect(w) == [w EXCEPT !.runningRef = w.running]

\* animate with the position update not guarded by runningRef.current
animateIgnoringPause(w, a) ==
  LET act == w.acts[a]
      elapsed == w.now - act.startTime
      moved == [w.acts EXCEPT ![a].positions = UpdatePositions(act, elapsed)]
      rotated == IF w.pointsRef # 0
                   THEN [moved EXCEPT ![w.pointsRef].rotation =
                           << elapsed * (act.p.rotationSpeed * 18),
                              elapsed * act.p.rotationSpeed >>]
                   ELSE moved
      rendered == [rotated EXCEPT ![a].renders = @ + 1]
  IN  [w EXCEPT !.frames = @ \cup {[id |-> w.nextFrameId, act |-> a]},
                !.animationRef = w.nextFrameId,
                !.nextFrameId = @ + 1,
                !.acts = rendered]

\* animate with the rotation inside the branch guarded by runningRef.current
animateRotatingWhileRunning(w, a) ==
  LET act == w.acts[a]
      elapsed == w.now - act.startTime
      moved == IF w.runningRef
                 THEN [w.acts EXCEPT ![a].positions = UpdatePositions(act, elapsed)]
                 ELSE w.acts
      rotated == IF w.runningRef /\ w.pointsRef # 0
                   THEN [moved EXCEPT ![w.pointsRef].rotation =
                           << elapsed * (act.p.rotationSpeed * 18),
                              elapsed * act.p.rotationSpeed >>]
                   ELSE moved
      rendered == [rotated EXCEPT ![a].renders = @ + 1]
  IN  [w EXCEPT !.frames = @ \cup {[id |-> w.nextFrameId, act |-> a]},
                !.animationRef = w.nextFrameId,
                !.nextFrameId = @ + 1,
                !.acts = rendered]

\* animate easing every position half way from its previous value
animateEasing(w, a) ==
  LET act == w.acts[a]
      elapsed == w.now - act.startTime
      target == UpdatePositions(act, elapsed)
      moved == IF w.runningRef
                 THEN [w.acts EXCEPT ![a].positions =
                         [k \in 1..Len(target) |-> (act.positions[k] + target[k]) \div 2]]
                 ELSE w.acts
      rotated == IF w.pointsRef # 0
                   THEN [moved EXCEPT ![w.pointsRef].rotation =
                           << elapsed * (act.p.rotationSpeed * 18),
                              elapsed * act.p.rotationSpeed >>]
                   ELSE moved
      rendered == [rotated EXCEPT ![a].renders = @ + 1]
  IN  [w EXCEPT !.frames = @ \cup {[id |-> w.nextFrameId, act |-> a]},
                !.animationRef = w.nextFrameId,
                !.nextFrameId = @ + 1,
                !.acts = rendered]

\* animate that does not keep the id of the frame it requests
animateWithoutStoringId(w, a) ==
  LET act == w.acts[a]
      elapsed == w.now - act.startTime
      moved == IF w.runningRef
                 THEN [w.acts EXCEPT ![a].positions = UpdatePositions(act, elapsed)]
                 ELSE w.acts
      rotated == IF w.pointsRef # 0
                   THEN [moved EXCEPT ![w.pointsRef].rotation =
                           << elapsed * (act.p.rotationSpeed * 18),
                              elapsed * act.p.rotationSpeed >>]
                   ELSE moved
      rendered == [rotated EXCEPT ![a].renders = @ + 1]
  IN  [w EXCEPT !.frames = @ \cup {[id |-> w.nextFrameId, act |-> a]},
                !.nextFrameId = @ + 1,
                !.acts = rendered]

\* one call of animate() of activation a
animate(w, a) ==
  LET act == w.acts[a]
      elapsed == w.now - act.startTime
      moved == IF w.runningRef
                 THEN [w.acts EXCEPT ![a].positions = UpdatePositions(act, elapsed)]
                 ELSE w.acts
      rotated == IF w.pointsRef # 0
                   THEN [moved EXCEPT ![w.pointsRef].rotation =
                           << elapsed * (act.p.rotationSpeed * 18),
                              elapsed * act.p.rotationSpeed >>]
                   ELSE moved
      rendered == [rotated EXCEPT ![a].renders = @ + 1]
  IN  [w EXCEPT !.frames = @ \cup {[id |-> w.nextFrameId, act |-> a]},
                !.animationRef = w.nextFrameId,
                !.nextFrameId = @ + 1,
                !.acts = rendered]

\* the activation effect registering handleResize before it starts the loop
activateListenerFirst(w, jit, rnd) ==
  LET a == Len(w.acts) + 1
      n == w.props.particleCount
      size == SurfaceSize(w.viewport)
      normals == BuildNormals(n)
      act == [p |-> w.props,
              positions |-> BuildPositions(normals, w.props.baseRadius, jit),
              normals |-> normals,
              randoms |-> rnd,
              startTime |-> w.now,
              rotation |-> << 0, 0 >>,
              cameraAspect |-> size,
              rendererSize |-> size,
              renders |-> 0,
              inScene |-> TRUE,
              controlsDisposed |-> FALSE,
              geometryDisposed |-> FALSE,
              materialDisposed |-> FALSE,
              rendererDisposed |-> FALSE,
              acquired |-> << "renderer", "canvas", "scene", "camera", "controls",
                              "lights", "buffers", "geometry", "material",
                              "points", "timer", "listener" >>,
              released |-> << >>,
              cleaned |-> FALSE,
              threw |-> FALSE,
              fault |-> "none"]
      built == [w EXCEPT !.listeners = @ \cup {a},
                         !.rendererRef = a,
                         !.mountChildren = @ \cup {a},
                         !.acts = Append(@, act),
                         !.pointsRef = a,
                         !.timers = Append(@, a)]
      started == [animate(built, a) EXCEPT !.acts[a].acquired = Append(@, "loop")]
  IN  [started EXCEPT !.effectCleanup = a]

\* the body of the activation effect; jit and rnd are the Math.random()
\* draws of the construction loop
activate(w, jit, rnd) ==
  LET a == Len(w.acts) + 1
      n == w.props.particleCount
      size == SurfaceSize(w.viewport)
      normals == BuildNormals(n)
      act == [p |-> w.props,
              positions |-> BuildPositions(normals, w.props.baseRadius, jit),
              normals |-> normals,
              randoms |-> rnd,
              startTime |-> w.now,
              rotation |-> << 0, 0 >>,
              cameraAspect |-> size,
              rendererSize |-> size,
              renders |-> 0,
              inScene |-> TRUE,
              controlsDisposed |-> FALSE,
              geometryDisposed |-> FALSE,
              materialDisposed |-> FALSE,
              rendererDisposed |-> FALSE,
              acquired |-> << "renderer", "canvas", "scene", "camera", "controls",
                              "lights", "buffers", "geometry", "material",
                              "points", "timer" >>,
              released |-> << >>,
              cleaned |-> FALSE,
              threw |-> FALSE,
              fault |-> "none"]
      built == [w EXCEPT !.rendererRef = a,
                         !.mountChildren = @ \cup {a},
                         !.acts = Append(@, act),
                         !.pointsRef = a,
                         !.timers = Append(@, a)]
      started == [animate(built, a) EXCEPT !.acts[a].acquired = Append(@, "loop")]
  IN  [started EXCEPT !.listeners = @ \cup {a},
                      !.acts[a].acquired = Append(@, "listener"),
                      !.effectCleanup = a]

\* handleResize that also restarts the clock of the activation
handleResizeRestarting(w, a) ==
  LET size == SurfaceSize(w.viewport)
  IN  [w EXCEPT !.acts[a].cameraAspect = size, !.acts[a].rendererSize = size,
                !.acts[a].startTime = w.now]

\* handleResize of activation a
handleResize(w, a) ==
  LET size == SurfaceSize(w.viewport)
  IN  [w EXCEPT !.acts[a].cameraAspect = size, !.acts[a].rendererSize = size]

\* cleanup without the cancelAnimationFrame call
cleanupWithoutCancel(w, a, fault) ==
  [w EXCEPT
     !.listeners = @ \ {a},
     !.acts = [@ EXCEPT ![a].inScene = FALSE,
                        ![a].controlsDisposed = TRUE,
                        ![a].geometryDisposed = TRUE,
                        ![a].materialDisposed = TRUE,
                        ![a].rendererDisposed = TRUE,
                        ![a].cleaned = TRUE],
     !.mountChildren = @ \ {a},
     !.pointsRef = 0,
     !.rendererRef = 0]

\* cleanup releasing in the reverse of the order of acquisition
cleanupReversed(w, a, fault) ==
  [w EXCEPT
     !.frames = {f \in @ : f.id # w.animationRef},
     !.listeners = @ \ {a},
     !.acts = [@ EXCEPT ![a].inScene = FALSE,
                        ![a].controlsDisposed = TRUE,
                        ![a].geometryDisposed = TRUE,
                        ![a].materialDisposed = TRUE,
                        ![a].rendererDisposed = TRUE,
                        ![a].released = << "listener", "loop", "points", "material",
                                           "geometry", "controls", "canvas", "renderer" >>,
                        ![a].cleaned = TRUE],
     !.mountChildren = @ \ {a},
     !.pointsRef = 0,
     !.rendererRef = 0]

\* the cleanup function the activation effect of a returned.  fault names
\* the release step that throws in this run ("none": no step throws); a
\* step that throws releases nothing.
cleanup(w, a, fault) ==
  LET throwsControls == fault = "controls"
      reachedDetach == ~throwsControls
      throwsDetach == reachedDetach /\ w.pointsRef # 0 /\ fault = "detach"
      reachedDispose == reachedDetach /\ ~throwsDetach
      throwsCanvas == reachedDispose /\ a \in w.mountChildren /\ fault = "canvas"
      reachedEnd == reachedDispose /\ ~throwsCanvas
      detached == IF reachedDispose /\ w.pointsRef # 0
                    THEN [w.acts EXCEPT ![w.pointsRef].inScene =
                            IF w.pointsRef = a THEN FALSE ELSE @]
                    ELSE w.acts
      done(step, performed) == IF performed THEN << step >> ELSE << >>
      log == << "loop", "listener" >>
               \o done("controls", reachedDetach)
               \o done("points", reachedDispose /\ w.pointsRef # 0)
               \o done("geometry", reachedDispose /\ fault # "geometry")
               \o done("material", reachedDispose /\ fault # "material")
               \o done("renderer", reachedDispose /\ fault # "renderer")
               \o done("canvas", reachedEnd /\ a \in w.mountChildren)
  IN  [w EXCEPT
        !.frames = {f \in @ : f.id # w.animationRef},
        !.listeners = @ \ {a},
        !.acts = [detached EXCEPT
                    ![a].controlsDisposed = reachedDetach,
                    ![a].geometryDisposed = reachedDispose /\ fault # "geometry",
                    ![a].materialDisposed = reachedDispose /\ fault # "material",
                    ![a].rendererDisposed = reachedDispose /\ fault # "renderer",
                    ![a].released = log,
                    ![a].cleaned = TRUE,
                    ![a].threw = ~reachedEnd,
                    ![a].fault = fault],
        !.mountChildren = IF reachedEnd THEN @ \ {a} ELSE @,
        !.pointsRef = IF reachedEnd THEN 0 ELSE @,
        !.rendererRef = IF reachedEnd THEN 0 ELSE @]

\* the dependency list without rotationSpeed
depsChangedWithoutRotation(old, new) ==
  \/ old.particleCount # new.particleCount
  \/ old.baseRadius # new.baseRadius
  \/ old.pulseAmplitude # new.pulseAmplitude
  \/ old.pulseSpeed # new.pulseSpeed

\* the dependency list of the activation effect: does it run again?
depsChanged(old, new) ==
  \/ old.particleCount # new.particleCount
  \/ old.baseRadius # new.baseRadius
  \/ old.pulseAmplitude # new.pulseAmplitude
  \/ old.pulseSpeed # new.pulseSpeed
  \/ old.rotationSpeed # new.rotationSpeed

\* setRunning((r) => !r), leaving runningRef to the sync effect
toggleRunningStateOnly(w) ==
  [w EXCEPT !.running = ~w.running,
            !.pendingEffects = @ \cup {"sync"}]

\* setRunning((r) => { runningRef.current = !r; return !r; })
toggleRunning(w) ==
  [w EXCEPT !.runningRef = ~w.running,
            !.running = ~w.running,
            !.pendingEffects = @ \cup {"sync"}]

\* the setTimeout callback of activation a: setReadyInfo({particleCount, geometry, points})
readyCallback(w, a) ==
  [w EXCEPT !.readyInfo =
     [particleCount |-> w.acts[a].p.particleCount, geometry |-> a, points |-> a]]

\* quickCheck comparing the count with the particleCount prop
quickCheckAgainstProps(w) ==
  IF w.readyInfo = NullInfo
    THEN [w EXCEPT !.report = [NoReport EXCEPT !.kind = "notReady"]]
    ELSE LET geom == w.readyInfo.geometry
             posCount == IF geom # 0 THEN AttrCount(w.acts[geom].positions, 3) ELSE -1
         IN  [w EXCEPT !.report =
                [kind |-> "report",
                 particleCount |-> w.readyInfo.particleCount,
                 posCount |-> posCount,
                 okCount |-> (posCount = w.props.particleCount),
                 present |-> (w.readyInfo.points # 0)]]

quickCheck(w) ==
  IF w.readyInfo = NullInfo
    THEN [w EXCEPT !.report = [NoReport EXCEPT !.kind = "notReady"]]
    ELSE LET geom == w.readyInfo.geometry
             posCount == IF geom # 0 THEN AttrCount(w.acts[geom].positions, 3) ELSE -1
         IN  [w EXCEPT !.report =
                [kind |-> "report",
                 particleCount |-> w.readyInfo.particleCount,
                 posCount |-> posCount,
                 okCount |-> (posCount = w.readyInfo.particleCount),
                 present |-> (w.readyInfo.points # 0)]]

\* -------------------------------------------------------------- actions
\* Scheduling follows React's passive effects: a commit leaves its effects
\* pending, they run in a later task, and always before the next render,
\* click or unmount.  Animation frames, resize events and the self-check
\* reading the rendered readyInfo may come in between.

\* first render and commit of <DustSphereApp {...props} />
Mount ==
  /\ phase = "init"
  /\ Becomes([World EXCEPT !.props = DestructureProps(props),
                           !.phase = "mounted",
                           !.pendingEffects = {"sync", "activation"}], "mount")

\* React runs the pending effects: the sync effect, then the cleanup of the
\* previous activation and the body of the new one
FlushPassiveEffects(fault) ==
  /\ phase = "mounted"
  /\ pendingEffects # {}
  /\ \E jit \in [1..props.particleCount -> RandomVals],
        rnd \in [1..props.particleCount -> RandomVals] :
       LET synced == IF "sync" \in pendingEffects THEN syncEffect(World) ELSE World
           torn == IF "activation" \in pendingEffects /\ effectCleanup # 0
                     THEN cleanup(synced, effectCleanup, fault)
                     ELSE synced
           built == IF "activation" \in pendingEffects
                      THEN activate(torn, jit, rnd)
                      ELSE torn
       IN  /\ "activation" \notin pendingEffects =>
                /\ jit = [i \in 1..props.particleCount |-> 0]
                /\ rnd = jit
                /\ fault = "none"
           /\ effectCleanup = 0 => fault = "none"
           /\ Becomes([built EXCEPT !.pendingEffects = {}], "effects")

\* an animation frame: the browser calls the animate of a pending request
Tick(f, dt) ==
  /\ f \in frames
  /\ nextFrameId <= MaxFrames
  /\ Becomes(animate([World EXCEPT !.frames = @ \ {f}, !.now = @ + dt], f.act), "tick")

\* click on Pause / Play
Toggle ==
  /\ phase = "mounted"
  /\ pendingEffects = {}
  /\ Becomes(toggleRunning(World), "toggle")

\* click on Quick check
QuickCheck ==
  /\ phase = "mounted"
  /\ Becomes(quickCheck(World), "quickCheck")

\* the oldest pending timeout fires
TimerFire ==
  /\ timers # << >>
  /\ pendingEffects = {}
  /\ LET a == Head(timers)
         popped == [World EXCEPT !.timers = Tail(@)]
     IN  Becomes(IF phase = "mounted" THEN readyCallback(popped, a) ELSE popped, "ready")

RECURSIVE dispatchResize(_, _)
dispatchResize(w, ls) ==
  IF ls = {} THEN w
  ELSE LET a == CHOOSE x \in ls : TRUE
       IN  dispatchResize(handleResize(w, a), ls \ {a})

\* the window is resized: every registered handleResize runs
Resize(v) ==
  /\ v # viewport
  /\ Becomes(dispatchResize([World EXCEPT !.viewport = v], listeners), "resize")

\* the parent renders the component with props p
PropsChange(p) ==
  /\ phase = "mounted"
  /\ pendingEffects = {}
  /\ p # props
  /\ depsChanged(props, p) => Len(acts) < MaxActivations
  /\ Becomes([World EXCEPT !.props = p,
                           !.pendingEffects =
                              IF depsChanged(props, p) THEN {"activation"} ELSE {}],
             "props")

\* the component is unmounted: React runs the cleanup of the activation
Unmount(fault) ==
  /\ phase = "mounted"
  /\ pendingEffects = {}
  /\ effectCleanup # 0
  /\ Becomes([cleanup(World, effectCleanup, fault) EXCEPT
                !.phase = "unmounted", !.effectCleanup = 0], "unmount")

Next ==
  \/ Mount
  \/ FlushPassiveEffects("none")
  \/ \E f \in frames, dt \in FrameDeltas : Tick(f, dt)
  \/ Toggle
  \/ QuickCheck
  \/ TimerFire
  \/ \E v \in ResizedViewports : Resize(v)
  \/ \E p \in NextProps(props) : PropsChange(p)
  \/ Unmount("none")

Spec == Init /\ [][Next]_vars

\* the same component when one release step of a cleanup may throw
FaultNext ==
  \/ Mount
  \/ \E fault \in ReleaseSteps \cup {"none"} : FlushPassiveEffects(fault)
  \/ \E f \in frames, dt \in FrameDeltas : Tick(f, dt)
  \/ Toggle
  \/ QuickCheck
  \/ TimerFire
  \/ \E v \in ResizedViewports : Resize(v)
  \/ \E p \in NextProps(props) : PropsChange(p)
  \/ \E fault \in ReleaseSteps \cup {"none"} : Unmount(fault)

FaultSpec == Init /\ [][FaultNext]_vars

\* the first render alone, for every choice of given and omitted props
DefaultsNext == Mount

DefaultsSpec == (\E o \in OptionSpace : InitWith(o)) /\ [][DefaultsNext]_vars

TypeOK ==
  /\ phase \in {"init", "mounted", "unmounted"}
  /\ pendingEffects \subseteq {"sync", "activation"}
  /\ Len(acts) <= MaxActivations
  /\ \A a \in DOMAIN acts : Len(acts[a].positions) = 3 * acts[a].p.particleCount

\* ------------------------------------------------------------ properties
\* the live activation: the one whose cleanup has not run
Live == effectCleanup

\* the live activation has published its readiness: its timeout has fired
Published == Live # 0 /\ \A i \in 1..Len(timers) : timers[i] # Live

\* the activation whose animate ran in the last tick: it owns the frame it requested
Ticked == (CHOOSE f \in frames : f.id = animationRef).act

\* C1: a tick executed while runningRef.current is false leaves every
\* position buffer as it was before the tick.
C1_PausedTickFreezesPositions ==
  [][(lastOp' = "tick" /\ ~runningRef) =>
       /\ DOMAIN acts' = DOMAIN acts
       /\ \A a \in DOMAIN acts : acts'[a].positions = acts[a].positions]_vars

\* a paused tick at a positive elapsed time, where a running tick would
\* have written other positions
C1_Witness ==
  /\ lastOp = "tick"
  /\ ~runningRef
  /\ Live # 0
  /\ acts[Live].p.particleCount > 0
  /\ now > acts[Live].startTime
  /\ acts[Live].positions # UpdatePositions(acts[Live], now - acts[Live].startTime)

\* C2: a self-check made before the live activation has published its
\* readiness reports "not ready", never the data of an earlier activation.
C2_NotReadyBeforePublished ==
  (lastOp = "quickCheck" /\ ~Published) => report.kind = "notReady"

\* C3: a self-check made after the live activation has published its
\* readiness reports a position count equal to the particleCount the
\* activation was configured with, count matches, and the points present.
C3_SelfCheckAfterReady ==
  (lastOp = "quickCheck" /\ Published) =>
     report = [kind |-> "report",
               particleCount |-> acts[Live].p.particleCount,
               posCount |-> acts[Live].p.particleCount,
               okCount |-> TRUE,
               present |-> TRUE]

\* a self-check of the second activation, of two particles, after a
\* tick, a pause and a resize
C3_Witness ==
  /\ lastOp = "quickCheck"
  /\ Published
  /\ Live = 2
  /\ acts[Live].p.particleCount = 2
  /\ acts[Live].renders >= 2
  /\ ~running
  /\ acts[Live].rendererSize # SurfaceSize(InitialViewport)

\* C4: once the cleanup of an activation has run, no frame of it is pending
\* and no step writes its position buffer or renders with its renderer; and
\* a running tick leaves the whole buffer updated for its elapsed time.
C4_NoTickAfterCleanup ==
  [][/\ \A a \in DOMAIN acts' : acts'[a].cleaned =>
           \A f \in frames' : f.act # a
     /\ \A a \in DOMAIN acts : acts[a].cleaned =>
           /\ acts'[a].positions = acts[a].positions
           /\ acts'[a].renders = acts[a].renders
           /\ acts'[a].rotation = acts[a].rotation
     /\ (lastOp' = "tick" /\ runningRef') =>
           LET a == (CHOOSE f \in frames' : f.id = animationRef').act
           IN  acts'[a].positions = UpdatePositions(acts[a], now' - acts[a].startTime)]_vars

\* the second activation ticks after the cleanup of the first, whose
\* buffer a tick of its own would have changed by now
C4_Witness ==
  /\ lastOp = "tick"
  /\ Len(acts) = 2
  /\ acts[1].cleaned
  /\ acts[1].p.particleCount > 0
  /\ acts[1].positions # UpdatePositions(acts[1], now - acts[1].startTime)
  /\ acts[2].renders >= 2

\* C5: whichever single release step of a cleanup fails, every other
\* release step is performed and nothing is thrown out of the cleanup.
C5_ReleaseBestEffort ==
  \A a \in DOMAIN acts : acts[a].cleaned =>
     /\ ~acts[a].threw
     /\ acts[a].fault # "controls" => acts[a].controlsDisposed
     /\ acts[a].fault # "detach" => ~acts[a].inScene
     /\ acts[a].fault # "geometry" => acts[a].geometryDisposed
     /\ acts[a].fault # "material" => acts[a].materialDisposed
     /\ acts[a].fault # "renderer" => acts[a].rendererDisposed
     /\ acts[a].fault # "canvas" => a \notin mountChildren

\* C6: while the component is mounted, no handle it retains refers to an
\* object of an activation whose cleanup has run.
C6_NoHandleToReleased ==
  phase = "mounted" =>
    \A a \in DOMAIN acts : acts[a].cleaned =>
       /\ pointsRef # a
       /\ rendererRef # a
       /\ readyInfo.geometry # a
       /\ readyInfo.points # a
       /\ \A f \in frames : f.id = animationRef => f.act # a

\* C7: every change of a prop leaves the activation effect pending; when it
\* runs, the old activation is released to the end and the new one is built
\* from the new props, with buffers of the new particle count and a start
\* time of its own.
C7_ParamChangeRebuilds ==
  [][/\ lastOp' = "props" => "activation" \in pendingEffects'
     /\ (lastOp' = "effects" /\ Len(acts') > Len(acts) /\ Live # 0) =>
          LET old == Live
              new == Len(acts')
          IN  /\ acts'[old].cleaned /\ ~acts'[old].threw
              /\ acts'[old].controlsDisposed /\ ~acts'[old].inScene
              /\ acts'[old].geometryDisposed /\ acts'[old].materialDisposed
              /\ acts'[old].rendererDisposed
              /\ old \notin mountChildren' /\ old \notin listeners'
              /\ \A f \in frames' : f.act = new
              /\ new = Len(acts) + 1
              /\ acts'[new].p = props
              /\ Len(acts'[new].positions) = 3 * props.particleCount
              /\ Len(acts'[new].normals) = 3 * props.particleCount
              /\ Len(acts'[new].randoms) = props.particleCount
              /\ acts'[new].startTime = now'
              /\ acts'[new].rotation = << 0, 0 >>
              /\ ~acts'[new].cleaned
              /\ effectCleanup' = new /\ pointsRef' = new /\ rendererRef' = new
              /\ mountChildren' = {new} /\ listeners' = {new}]_vars

\* the effect has just rebuilt: the first activation, which had ticked, is
\* released and a second one of two particles starts at a later time
C7_Witness ==
  /\ lastOp = "effects"
  /\ Len(acts) = 2
  /\ acts[1].cleaned
  /\ acts[1].renders >= 2
  /\ acts[2].p.particleCount = 2
  /\ Len(acts[2].positions) = 6
  /\ acts[2].startTime > 0

\* C8: after every tick, paused or not, the rotation of the cloud is the
\* elapsed time of that tick times rotationSpeed (y) and times
\* rotationSpeed * 0.18 (x).
C8_RotationFromElapsed ==
  lastOp = "tick" =>
     LET t == now - acts[Ticked].startTime
     IN  /\ pointsRef # 0
         /\ acts[pointsRef].rotation[2] = t * acts[Ticked].p.rotationSpeed
         /\ acts[pointsRef].rotation[1] = t * acts[Ticked].p.rotationSpeed * 18

\* a paused tick, not the first of its activation, with a rotation that
\* has advanced
C8_Witness ==
  /\ lastOp = "tick"
  /\ ~runningRef
  /\ acts[Ticked].renders >= 3
  /\ acts[Ticked].rotation[2] > 0

\* C9: a toggle flips running, writes the new value to the flag the loop
\* reads and leaves the buffers alone; a tick moves a buffer only if running
\* holds and then moves it; the flag agrees with running whenever no sync
\* effect is pending.
C9_ToggleSeenByNextTick ==
  [][/\ lastOp' = "toggle" =>
          /\ running' = ~running
          /\ runningRef' = running'
          /\ acts' = acts
     /\ lastOp' = "tick" =>
          /\ ~running => \A a \in DOMAIN acts : acts'[a].positions = acts[a].positions
          /\ running => acts'[Ticked'].positions =
                          UpdatePositions(acts[Ticked'], now' - acts[Ticked'].startTime)
     /\ (phase' = "mounted" /\ "sync" \notin pendingEffects') => runningRef' = running']_vars

\* a tick right after a pause, before the sync effect of the toggle has run
C9_Witness ==
  /\ lastOp = "tick"
  /\ "sync" \in pendingEffects
  /\ ~running
  /\ acts[Ticked].p.particleCount > 0
  /\ acts[Ticked].positions # UpdatePositions(acts[Ticked], now - acts[Ticked].startTime)

\* C10: a resize changes nothing but the window sizes, the camera aspect
\* and the renderer size.
C10_ResizeOnlyResizes ==
  [][lastOp' = "resize" =>
       /\ UNCHANGED << props, phase, pendingEffects, effectCleanup, pointsRef,
                       rendererRef, animationRef, runningRef, running, readyInfo,
                       timers, frames, nextFrameId, now, mountChildren, listeners >>
       /\ DOMAIN acts' = DOMAIN acts
       /\ \A a \in DOMAIN acts :
            [acts'[a] EXCEPT !.cameraAspect = acts[a].cameraAspect,
                             !.rendererSize = acts[a].rendererSize] = acts[a]]_vars

\* a resize reached a live activation with particles and a pending frame
C10_Witness ==
  /\ lastOp = "resize"
  /\ Live # 0
  /\ acts[Live].p.particleCount > 0
  /\ acts[Live].renders >= 2
  /\ frames # {}
  /\ acts[Live].rendererSize = SurfaceSize(viewport)
  /\ acts[Live].cameraAspect # SurfaceSize(InitialViewport)

\* the scalar s with pos = nrm * s for particle i (0-based) of an
\* activation, taken from the first component whose normal is not 0
FactorOf(act, i) ==
  LET ks == {k \in (3 * i + 1)..(3 * i + 3) : act.normals[k] # 0}
      k0 == CHOOSE k \in ks : \A j \in ks : k <= j
  IN  IF ks = {} THEN 0
      ELSE IF act.normals[k0] > 0
             THEN act.positions[k0] \div act.normals[k0]
             ELSE (0 - act.positions[k0]) \div (0 - act.normals[k0])

\* C11: in every state each position[i] is normal[i] times one scalar, the
\* same for its three components, and no step writes the normals or the
\* jitter factors of an activation.
C11_PositionsAlongNormals ==
  [][/\ \A a \in DOMAIN acts' :
          \A i \in 0..(acts'[a].p.particleCount - 1) :
             \A k \in (3 * i + 1)..(3 * i + 3) :
                acts'[a].positions[k] = acts'[a].normals[k] * FactorOf(acts'[a], i)
     /\ \A a \in DOMAIN acts :
          /\ acts'[a].normals = acts[a].normals
          /\ acts'[a].randoms = acts[a].randoms]_vars

\* a running tick at a positive elapsed time has rewritten the buffer of an
\* activation of two particles, and it differs from the generated one
C11_Witness ==
  /\ lastOp = "tick"
  /\ runningRef
  /\ Live # 0
  /\ acts[Live].p.particleCount = 2
  /\ now > acts[Live].startTime
  /\ acts[Live].positions = UpdatePositions(acts[Live], now - acts[Live].startTime)
  /\ \E d \in RandomVals :
       acts[Live].positions[3] # acts[Live].normals[3] * (acts[Live].p.baseRadius + JitterOf(d))
  /\ FactorOf(acts[Live], 0) # FactorOf(acts[Live], 1)

\* C12: every activation has exactly particleCount entries in position,
\* normal and jitterFactor, in every state, and the arrays are indexed by
\* the particles 0 .. particleCount - 1 only.
C12_ExactlyNEntries ==
  \A a \in DOMAIN acts :
     /\ AttrCount(acts[a].positions, 3) = acts[a].p.particleCount
     /\ AttrCount(acts[a].normals, 3) = acts[a].p.particleCount
     /\ AttrCount(acts[a].randoms, 1) = acts[a].p.particleCount
     /\ DOMAIN acts[a].positions = 1..(3 * acts[a].p.particleCount)
     /\ DOMAIN acts[a].normals = 1..(3 * acts[a].p.particleCount)
     /\ DOMAIN acts[a].randoms = 1..acts[a].p.particleCount

\* an activation of no particle has ticked and published, and the
\* self-check has reported on its empty arrays
C12_Witness ==
  /\ lastOp = "quickCheck"
  /\ Published
  /\ acts[Live].p.particleCount = 0
  /\ acts[Live].positions = << >>
  /\ acts[Live].renders >= 2
  /\ report.kind = "report"
  /\ report.posCount = 0
  /\ report.okCount

\* C17: after a tick made while running, the position buffer of the
\* activation is the function of the elapsed time of that tick, its normals,
\* its jitter factors and its props, whatever ticks, pauses and resumes
\* came before.
C17_PositionsFromElapsedOnly ==
  (lastOp = "tick" /\ runningRef) =>
     acts[Ticked].positions = UpdatePositions(acts[Ticked], now - acts[Ticked].startTime)

\* the third call of animate of an activation, running again right after a
\* resume whose sync effect has not run yet
C17_Witness ==
  /\ lastOp = "tick"
  /\ runningRef
  /\ "sync" \in pendingEffects
  /\ acts[Ticked].renders >= 3
  /\ acts[Ticked].p.particleCount > 0
  /\ now - acts[Ticked].startTime > 700

\* C19: at most one frame is pending, one canvas attached and one resize
\* listener registered; while an activation is live they are its own and
\* animationRef holds the id of its pending frame; otherwise there is none.
C19_OneLiveActivation ==
  /\ Cardinality(frames) <= 1
  /\ Cardinality(mountChildren) <= 1
  /\ Cardinality(listeners) <= 1
  /\ Cardinality({a \in DOMAIN acts : ~acts[a].cleaned}) <= 1
  /\ Live # 0 =>
       /\ ~acts[Live].cleaned
       /\ frames = {[id |-> animationRef, act |-> Live]}
       /\ mountChildren = {Live}
       /\ listeners = {Live}
  /\ Live = 0 => frames = {} /\ mountChildren = {} /\ listeners = {}

\* the second activation is live between two ticks, after the first one,
\* which had a frame pending, was cleaned up
C19_Witness ==
  /\ Live = 2
  /\ acts[1].cleaned
  /\ lastOp = "tick"
  /\ animationRef = 3
  /\ frames = {[id |-> 3, act |-> 2]}

\* C13: a prop that is not passed takes the default the README documents
\* (particleCount 5000, baseRadius 5, pulseAmplitude 0.5, pulseSpeed 3,
\* rotationSpeed 0.65).
C13_DocumentedDefaults ==
  [][lastOp' = "mount" =>
       /\ props.particleCount = Omitted => props'.particleCount = ReadmeParticleCount
       /\ props.baseRadius = Omitted => props'.baseRadius = ReadmeBaseRadius
       /\ props.pulseAmplitude = Omitted => props'.pulseAmplitude = ReadmePulseAmplitude
       /\ props.pulseSpeed = Omitted => props'.pulseSpeed = ReadmePulseSpeed
       /\ props.rotationSpeed = Omitted => props'.rotationSpeed = ReadmeRotationSpeed]_vars

\* the items of a log that are in the set S, in the order of the log
Restrict(log, S) == SelectSeq(log, LAMBDA x : x \in S)

Reverse(log) == [k \in 1..Len(log) |-> log[Len(log) + 1 - k]]

\* the position of an item in a log
IndexOf(log, x) == CHOOSE k \in 1..Len(log) : log[k] = x

\* C14: a cleanup releases in the reverse of the order of acquisition, in
\* the sequence loop, resize listener, controls, point cloud, buffers,
\* render surface.
C14_ReleaseReversesAcquisition ==
  \A a \in DOMAIN acts : acts[a].cleaned =>
     /\ Restrict(acts[a].released,
                 {"loop", "listener", "controls", "points", "geometry", "renderer"})
          = << "loop", "listener", "controls", "points", "geometry", "renderer" >>
     /\ acts[a].released =
          Reverse(Restrict(acts[a].acquired,
                           {x \in {"loop", "listener", "controls", "points", "geometry",
                                   "material", "renderer", "canvas"} :
                              \E k \in 1..Len(acts[a].released) : acts[a].released[k] = x}))

\* C14 as amended: a cleanup that completes releases in the sequence loop,
\* resize listener, controls, point cloud, geometry, material, renderer,
\* canvas.
C14_ReleaseSequence ==
  \A a \in DOMAIN acts : (acts[a].cleaned /\ ~acts[a].threw) =>
     acts[a].released = << "loop", "listener", "controls", "points", "geometry",
                           "material", "renderer", "canvas" >>

\* an unmount has released an activation that had acquired everything
C14_Witness ==
  /\ lastOp = "unmount"
  /\ \E a \in DOMAIN acts :
       /\ acts[a].cleaned
       /\ Len(acts[a].acquired) = 13
       /\ Len(acts[a].released) = 8
       /\ a \notin mountChildren

\* C15: an activation acquires render surface, camera, lights, controls,
\* Particle Set and point cloud in this order, starts the loop after all of
\* them and registers the resize listener after the loop.
C15_AcquisitionOrder ==
  \A a \in DOMAIN acts :
     /\ Restrict(acts[a].acquired,
                 {"renderer", "camera", "lights", "controls", "buffers", "points"})
          = << "renderer", "camera", "lights", "controls", "buffers", "points" >>
     /\ \A x \in {"renderer", "camera", "lights", "controls", "buffers", "points"} :
          IndexOf(acts[a].acquired, x) < IndexOf(acts[a].acquired, "loop")
     /\ IndexOf(acts[a].acquired, "loop") < IndexOf(acts[a].acquired, "listener")

\* C15 as amended: the order is render surface, camera, controls, lights,
\* Particle Set, point cloud; the loop starts after all of them and the
\* resize listener is registered after the loop.
C15_AcquisitionOrderControlsFirst ==
  \A a \in DOMAIN acts :
     /\ Restrict(acts[a].acquired,
                 {"renderer", "camera", "lights", "controls", "buffers", "points"})
          = << "renderer", "camera", "controls", "lights", "buffers", "points" >>
     /\ \A x \in {"renderer", "camera", "lights", "controls", "buffers", "points"} :
          IndexOf(acts[a].acquired, x) < IndexOf(acts[a].acquired, "loop")
     /\ IndexOf(acts[a].acquired, "loop") < IndexOf(acts[a].acquired, "listener")

\* the effect has just built an activation: its loop has a frame pending
\* and its listener is registered
C15_Witness ==
  /\ lastOp = "effects"
  /\ Live # 0
  /\ acts[Live].renders = 1
  /\ \E f \in frames : f.act = Live
  /\ Live \in listeners
  /\ acts[Live].acquired[Len(acts[Live].acquired)] = "listener"

\* C16: a tick executed while running is false leaves rotationY and
\* rotationX of the cloud as they were before the tick.
C16_PausedRotationFrozen ==
  [][(lastOp' = "tick" /\ ~runningRef) =>
       \A a \in DOMAIN acts : acts'[a].rotation = acts[a].rotation]_vars

\* C16 as amended: a tick executed while running is false sets rotationY and
\* rotationX to the values of that tick's elapsed time, so the rotation
\* stays as it was only when rotationSpeed is 0.
C16_PausedRotationFollowsElapsed ==
  [][(lastOp' = "tick" /\ ~runningRef) =>
       LET a == pointsRef'
           t == now' - acts'[Ticked'].startTime
           speed == acts'[Ticked'].p.rotationSpeed
       IN  /\ a # 0
           /\ acts'[a].rotation = << t * speed * 18, t * speed >>
           /\ (acts'[a].rotation = acts[a].rotation) <=> (speed = 0)]_vars

\* the first tick after the initial frame of an activation ran paused and
\* turned the cloud
C16_Witness ==
  /\ lastOp = "tick"
  /\ ~runningRef
  /\ ~running
  /\ acts[Ticked].renders = 2
  /\ acts[Ticked].rotation[2] = (now - acts[Ticked].startTime) * acts[Ticked].p.rotationSpeed
  /\ acts[Ticked].rotation[2] > 0

\* C18: the readiness timeout of an activation that has been deactivated
\* does not set readyInfo, and a self-check never reports presence for the
\* point object of an activation that has been torn down.
C18_NoReadyAfterDeactivation ==
  [][/\ (/\ lastOp' = "ready"
         /\ timers # << >>
         /\ timers' = Tail(timers)
         /\ acts[Head(timers)].cleaned) => readyInfo' = readyInfo
     /\ (lastOp' = "quickCheck" /\ report'.kind = "report" /\ report'.present) =>
          ~acts'[readyInfo'.points].cleaned]_vars

====
